---- MODULE Spec2Model ----
(***************************************************************************)
(* Terrain asset pipeline of AshesAndAether_Server:                        *)
(*   scripts/terrain/build_heightmap.py    (tiles -> merged heightmap)     *)
(*   scripts/terrain/build_terrain_mesh.py (heightmap -> mesh / chunks)    *)
(*                                                                         *)
(* Number representation.  Python floats are modelled in fixed point:     *)
(*   - latitudes/longitudes are integers in units of 1/69 degree (the     *)
(*     "mile of latitude" of clamp_bounds);                                *)
(*   - elevations are integer metres or NaN, a sample being the record    *)
(*     [nan |-> BOOLEAN, v |-> Int];                                       *)
(*   - local coordinates and vertex heights are in 1/1000 foot;           *)
(*   - math.cos(math.radians(lat)) is a table in 1/1000 by 10-degree band. *)
(* Floating-point rounding error is outside the model.                     *)
(***************************************************************************)
EXTENDS Integers, Sequences, FiniteSets, TLC

VARIABLES
    \* ---- build_terrain_mesh.py ----
    grid,          \* heightmap array returned by load_heightmap
    meta,          \* heightmap metadata dict
    args,          \* parsed command line of the mesh builder
    mpc,           \* position in build_terrain_mesh.main
    chunk_row,     \* outer loop variable of create_chunked_terrain
    chunk_col,     \* inner loop variable of create_chunked_terrain
    manifest,      \* the manifest dict being built
    meshFiles,     \* mesh files exported so far, in export order
    manifestFile,  \* <<>> or <<manifest>>: terrain_manifest.json on disk
    \* ---- build_heightmap.py ----
    globbed,       \* input_dir.glob("*.tif"): tiles keyed by path, any order
    hargs,         \* parsed command line of the heightmap builder
    tiles,         \* load_tiles(sorted paths)
    clip,          \* (min_lon, min_lat, max_lon, max_lat) after clamp_bounds
    hgrid,         \* the target grid
    tileIdx,       \* index of the next tile of the compositing loop
    hpc,           \* position in build_heightmap.main
    herr,          \* the exception that ended the run, "" if none
    binFile,       \* <<>> or <<grid>>: <prefix>.bin on disk
    jsonFile       \* <<>> or <<metadata>>: <prefix>.json on disk

meshVars == <<grid, meta, args, mpc, chunk_row, chunk_col, manifest, meshFiles, manifestFile>>
hmVars == <<globbed, hargs, tiles, clip, hgrid, tileIdx, hpc, herr, binFile, jsonFile>>
vars == <<grid, meta, args, mpc, chunk_row, chunk_col, manifest, meshFiles, manifestFile,
          globbed, hargs, tiles, clip, hgrid, tileIdx, hpc, herr, binFile, jsonFile>>

----------------------------------------------------------------------------
\* Bounds of the model

\* largest width and height of a heightmap handed to the mesh builder
MaxDim == 5
\* largest --downsample
MaxDownsample == 2
\* largest --chunk-size
MaxChunk == 3
\* heightmap fill patterns 0..MaxPattern (0 is the all-NaN grid)
MaxPattern == 2
\* largest number of tiles in the input directory
MaxTiles == 2
\* largest --radius-miles
MaxRadius == 2
\* pixel scale of the tiles, in 1/69 degree per pixel
PixelScale == 2

----------------------------------------------------------------------------
\* Program constants (fixed point)

\* EARTH_RADIUS = 6378137.0 metres, here in kilometres
EARTH_RADIUS == 6378
\* METERS_TO_FEET = 3.28084, here in 1/1000
METERS_TO_FEET == 3281
\* math.pi, in 1/1000
PiMilli == 3142
\* miles per degree of latitude (radius_miles / 69.0): coordinate units per degree
MilesPerDegree == 69
\* the nodata floor "y < -1000" feet, in 1/1000 foot
NodataFloor == -1000000

----------------------------------------------------------------------------
\* Arithmetic helpers

Min2(a, b) == IF a <= b THEN a ELSE b
Max2(a, b) == IF a >= b THEN a ELSE b
Abs(a) == IF a < 0 THEN -a ELSE a

\* math.ceil(a / b) for b > 0
CeilDiv(a, b) == -((-a) \div b)

\* round(a / b) for b > 0: Python 3 rounds halves to the even integer
RoundDiv(a, b) ==
    LET q == a \div b
        r == a % b
    IN  IF 2 * r < b THEN q
        ELSE IF 2 * r > b THEN q + 1
        ELSE IF q % 2 = 0 THEN q ELSE q + 1

\* math.cos(math.radians(lat)) in 1/1000, lat in 1/69 degree
CosTable == <<1000, 985, 940, 866, 766, 643, 500, 342, 174, 1>>
CosMilli(lat) == CosTable[Min2(((Abs(lat) \div MilesPerDegree) \div 10) + 1, 10)]

\* float samples
NaN == [nan |-> TRUE, v |-> 0]
F(x) == [nan |-> FALSE, v |-> x]
isnan(y) == y.nan
\* y * k for a float y and a finite k: NaN propagates
Times(y, k) == IF y.nan THEN NaN ELSE F(y.v * k)
\* y < k: every comparison with NaN is false
Less(y, k) == ~y.nan /\ y.v < k

\* A numpy 2-D array is the record [height, width, at]: its shape and its
\* cells, at[<<row, col>>], indexed from 0.

\* a[r0:r1, c0:c1] for 0 <= r0 <= r1 <= height and 0 <= c0 <= c1 <= width
SubArray(a, r0, r1, c0, c1) ==
    [height |-> r1 - r0, width |-> c1 - c0,
     at |-> [rc \in (0 .. r1 - r0 - 1) \X (0 .. c1 - c0 - 1) |->
                a.at[<<r0 + rc[1], c0 + rc[2]>>]]]

\* a[::d, ::d]
Stride(a, d) ==
    [height |-> CeilDiv(a.height, d), width |-> CeilDiv(a.width, d),
     at |-> [rc \in (0 .. CeilDiv(a.height, d) - 1) \X (0 .. CeilDiv(a.width, d) - 1) |->
                a.at[<<rc[1] * d, rc[2] * d>>]]]

----------------------------------------------------------------------------
\* build_terrain_mesh.py: pure functions

\* latlon_to_local: (x, z) in 1/1000 foot
latlon_to_local(lat, lon, origin_lat, origin_lon) ==
    LET meters_per_deg_lat == (PiMilli * EARTH_RADIUS) \div (180 * MilesPerDegree)
        meters_per_deg_lon == (meters_per_deg_lat * CosMilli(origin_lat)) \div 1000
        dx_meters == (lon - origin_lon) * meters_per_deg_lon
        dz_meters == (lat - origin_lat) * meters_per_deg_lat
    IN  <<dx_meters * METERS_TO_FEET, dz_meters * METERS_TO_FEET>>

\* mutant of MeshVertex: the nodata test forgets np.isnan
MeshVertexNoNaNTest(g, m, pixel_size, origin_lat, origin_lon, row, col) ==
    LET lon == m.originLon + col * pixel_size
        lat == m.originLat - row * pixel_size
        xz == latlon_to_local(lat, lon, origin_lat, origin_lon)
        y == Times(g.at[<<row, col>>], METERS_TO_FEET)
    IN  [x |-> xz[1],
         y |-> IF Less(y, NodataFloor) THEN F(0) ELSE y,
         z |-> xz[2]]

\* the body of the vertex loop: the vertex of cell (row, col)
MeshVertex(g, m, pixel_size, origin_lat, origin_lon, row, col) ==
    LET lon == m.originLon + col * pixel_size
        lat == m.originLat - row * pixel_size
        xz == latlon_to_local(lat, lon, origin_lat, origin_lon)
        y == Times(g.at[<<row, col>>], METERS_TO_FEET)
    IN  [x |-> xz[1],
         y |-> IF isnan(y) \/ Less(y, NodataFloor) THEN F(0) ELSE y,
         z |-> xz[2]]

\* "for row in range(height): for col in range(width): vertices.append(...)"
RECURSIVE VertexLoop(_, _, _, _, _, _, _, _)
VertexLoop(g, m, pixel_size, origin_lat, origin_lon, row, col, acc) ==
    IF row >= g.height THEN acc
    ELSE IF col >= g.width
         THEN VertexLoop(g, m, pixel_size, origin_lat, origin_lon, row + 1, 0, acc)
         ELSE VertexLoop(g, m, pixel_size, origin_lat, origin_lon, row, col + 1,
                         Append(acc, MeshVertex(g, m, pixel_size, origin_lat, origin_lon, row, col)))

\* mutant of QuadFaces: v11 loses its "+ 1"
QuadFacesBadCorner(width, row, col) ==
    LET v00 == row * width + col
        v01 == row * width + col + 1
        v10 == (row + 1) * width + col
        v11 == (row + 1) * width + col
    IN  << <<v00, v10, v01>>, <<v01, v10, v11>> >>

\* the body of the face loop: the two triangles of quad (row, col)
QuadFaces(width, row, col) ==
    LET v00 == row * width + col
        v01 == row * width + col + 1
        v10 == (row + 1) * width + col
        v11 == (row + 1) * width + col + 1
    IN  << <<v00, v10, v01>>, <<v01, v10, v11>> >>

\* "for row in range(height - 1): for col in range(width - 1): faces.append(...)"
RECURSIVE FaceLoop(_, _, _, _, _)
FaceLoop(height, width, row, col, acc) ==
    IF row >= height - 1 THEN acc
    ELSE IF col >= width - 1
         THEN FaceLoop(height, width, row + 1, 0, acc)
         ELSE FaceLoop(height, width, row, col + 1, acc \o QuadFaces(width, row, col))

\* create_terrain_mesh: the vertex and face arrays handed to trimesh.Trimesh
create_terrain_mesh(g0, m, origin_lat, origin_lon, downsample) ==
    LET g == IF downsample > 1 THEN Stride(g0, downsample) ELSE g0
        pixel_size == m.pixelSizeDeg * downsample
    IN  [vertices |-> VertexLoop(g, m, pixel_size, origin_lat, origin_lon, 0, 0, <<>>),
         faces |-> FaceLoop(g.height, g.width, 0, 0, <<>>),
         height |-> g.height,
         width |-> g.width]

\* create_chunked_terrain, before its loop: the downsampled grid
ChunkedGrid == IF args.downsample > 1 THEN Stride(grid, args.downsample) ELSE grid
\* create_chunked_terrain: pixel_size
ChunkedPixel == meta.pixelSizeDeg * args.downsample

\* mutant of ChunkRange: the "+ 1" overlap is dropped
ChunkRangeNoOverlap(g, chunk_size, cc, cr) ==
    LET row_start == cr * chunk_size
        col_start == cc * chunk_size
    IN  [row_start |-> row_start,
         row_end |-> Min2(row_start + chunk_size, g.height),
         col_start |-> col_start,
         col_end |-> Min2(col_start + chunk_size, g.width)]

\* create_chunked_terrain: the sub-grid range of chunk (cc, cr)
ChunkRange(g, chunk_size, cc, cr) ==
    LET row_start == cr * chunk_size
        col_start == cc * chunk_size
    IN  [row_start |-> row_start,
         row_end |-> Min2(row_start + chunk_size + 1, g.height),
         col_start |-> col_start,
         col_end |-> Min2(col_start + chunk_size + 1, g.width)]

\* create_chunked_terrain: chunk_meta, the metadata copy handed to the chunk's mesh
ChunkMeta(m, pixel_size, rg) ==
    [m EXCEPT !.originLat = m.originLat - rg.row_start * pixel_size,
              !.originLon = m.originLon + rg.col_start * pixel_size,
              !.width = rg.col_end - rg.col_start,
              !.height = rg.row_end - rg.row_start]

\* create_chunked_terrain: the mesh of chunk (cc, cr)
ChunkMesh(g, m, pixel_size, a, cc, cr) ==
    LET rg == ChunkRange(g, a.chunk_size, cc, cr)
        chunk_grid == SubArray(g, rg.row_start, rg.row_end, rg.col_start, rg.col_end)
    IN  create_terrain_mesh(chunk_grid, ChunkMeta(m, pixel_size, rg),
                            a.origin_lat, a.origin_lon, 1)

\* create_chunked_terrain: the manifest bounds of chunk (cc, cr)
ChunkBounds(g, m, pixel_size, a, cc, cr) ==
    LET rg == ChunkRange(g, a.chunk_size, cc, cr)
        min_lon == m.originLon + rg.col_start * pixel_size
        max_lon == m.originLon + (rg.col_end - 1) * pixel_size
        max_lat == m.originLat - rg.row_start * pixel_size
        min_lat == m.originLat - (rg.row_end - 1) * pixel_size
        lo == latlon_to_local(min_lat, min_lon, a.origin_lat, a.origin_lon)
        hi == latlon_to_local(max_lat, max_lon, a.origin_lat, a.origin_lon)
    IN  [min_x |-> Min2(lo[1], hi[1]), max_x |-> Max2(lo[1], hi[1]),
         min_z |-> Min2(lo[2], hi[2]), max_z |-> Max2(lo[2], hi[2])]

\* the chunk file name f"{output_prefix}_chunk_{chunk_col}_{chunk_row}.glb"
ChunkName(cc, cr) == <<"terrain_chunk", cc, cr>>

----------------------------------------------------------------------------
\* build_terrain_mesh.py: inputs

\* elevation samples (metres) the fill patterns draw from; -305 m is below the
\* nodata floor once converted to feet, -304 m is above it
Samples == <<F(100), NaN, F(-305), F(-304), F(-400)>>

\* cell (r, c) of fill pattern p
SampleAt(p, r, c) == IF p = 0 THEN NaN ELSE Samples[((r * p + c) % Len(Samples)) + 1]

\* the heightmap of fill pattern p
PatternGrid(h, w, p) ==
    [height |-> h, width |-> w,
     at |-> [rc \in (0 .. h - 1) \X (0 .. w - 1) |-> SampleAt(p, rc[1], rc[2])]]

\* world origins (--origin-lat, --origin-lon) with the offset of the heightmap's
\* origin from them: on the equator, and at 60 degrees north
Origins == { [lat |-> 0, lon |-> 0, dlat |-> 0, dlon |-> 0],
             [lat |-> 60 * MilesPerDegree, lon |-> -7, dlat |-> 3, dlon |-> -2] }

MeshIdle ==
    /\ grid = [height |-> 0, width |-> 0, at |-> <<>>]
    /\ meta = [originLat |-> 0, originLon |-> 0, pixelSizeDeg |-> 0, width |-> 0, height |-> 0]
    /\ args = [origin_lat |-> 0, origin_lon |-> 0, downsample |-> 1, chunk_size |-> 0]
    /\ mpc = "idle"
    /\ chunk_row = 0
    /\ chunk_col = 0
    /\ manifest = <<>>
    /\ meshFiles = <<>>
    /\ manifestFile = <<>>

\* the state of build_terrain_mesh.main after load_heightmap returned
MeshInit ==
    \E h \in 1 .. MaxDim, w \in 1 .. MaxDim, p \in 0 .. MaxPattern, o \in Origins,
       d \in 1 .. MaxDownsample, cs \in 0 .. MaxChunk :
        /\ grid = PatternGrid(h, w, p)
        /\ meta = [originLat |-> o.lat + o.dlat, originLon |-> o.lon + o.dlon,
                   pixelSizeDeg |-> PixelScale, width |-> w, height |-> h]
        /\ args = [origin_lat |-> o.lat, origin_lon |-> o.lon,
                   downsample |-> d, chunk_size |-> cs]
        /\ mpc = "main"
        /\ chunk_row = 0
        /\ chunk_col = 0
        /\ manifest = <<>>
        /\ meshFiles = <<>>
        /\ manifestFile = <<>>

----------------------------------------------------------------------------
\* build_terrain_mesh.py: main and the loop of create_chunked_terrain

\* main, "if args.chunk_size > 0", and create_chunked_terrain up to its loop
MainChunked ==
    /\ mpc = "main"
    /\ args.chunk_size > 0
    /\ LET chunks_x == CeilDiv(ChunkedGrid.width, args.chunk_size)
           chunks_z == CeilDiv(ChunkedGrid.height, args.chunk_size)
       IN  /\ manifest' = [chunks_x |-> chunks_x, chunks_z |-> chunks_z,
                           chunk_size |-> args.chunk_size,
                           origin_lat |-> args.origin_lat, origin_lon |-> args.origin_lon,
                           files |-> <<>>]
           /\ mpc' = IF chunks_x > 0 /\ chunks_z > 0 THEN "chunk_loop" ELSE "write_manifest"
    /\ chunk_row' = 0
    /\ chunk_col' = 0
    /\ UNCHANGED <<grid, meta, args, meshFiles, manifestFile>>
    /\ UNCHANGED hmVars

\* one iteration of the chunk loop: mesh, export, manifest entry
ChunkStep ==
    /\ mpc = "chunk_loop"
    /\ meshFiles' = Append(meshFiles,
            [file |-> ChunkName(chunk_col, chunk_row),
             mesh |-> ChunkMesh(ChunkedGrid, meta, ChunkedPixel, args, chunk_col, chunk_row)])
    /\ manifest' = [manifest EXCEPT !.files = Append(@,
            [file |-> ChunkName(chunk_col, chunk_row),
             chunk_x |-> chunk_col,
             chunk_z |-> chunk_row,
             bounds |-> ChunkBounds(ChunkedGrid, meta, ChunkedPixel, args, chunk_col, chunk_row)])]
    /\ IF chunk_col + 1 < manifest.chunks_x
       THEN chunk_col' = chunk_col + 1 /\ chunk_row' = chunk_row /\ mpc' = mpc
       ELSE /\ chunk_col' = 0
            /\ chunk_row' = chunk_row + 1
            /\ mpc' = IF chunk_row + 1 < manifest.chunks_z THEN "chunk_loop" ELSE "write_manifest"
    /\ UNCHANGED <<grid, meta, args, manifestFile>>
    /\ UNCHANGED hmVars

\* mesh.export(chunk_path) raises (the exporter or the file system fails)
ChunkExportFails ==
    /\ mpc = "chunk_loop"
    /\ mpc' = "failed"
    /\ UNCHANGED <<grid, meta, args, chunk_row, chunk_col, manifest, meshFiles, manifestFile>>
    /\ UNCHANGED hmVars

\* main: the manifest is written once the loop is over
WriteManifest ==
    /\ mpc = "write_manifest"
    /\ manifestFile' = <<manifest>>
    /\ mpc' = "done"
    /\ UNCHANGED <<grid, meta, args, chunk_row, chunk_col, manifest, meshFiles>>
    /\ UNCHANGED hmVars

\* open(manifest_path, "w") raises
WriteManifestFails ==
    /\ mpc = "write_manifest"
    /\ mpc' = "failed"
    /\ UNCHANGED <<grid, meta, args, chunk_row, chunk_col, manifest, meshFiles, manifestFile>>
    /\ UNCHANGED hmVars

\* main, else branch: one mesh of the whole heightmap
MainSingle ==
    /\ mpc = "main"
    /\ ~(args.chunk_size > 0)
    /\ meshFiles' = <<[file |-> <<"terrain", 0, 0>>,
                       mesh |-> create_terrain_mesh(grid, meta, args.origin_lat,
                                                    args.origin_lon, args.downsample)]>>
    /\ mpc' = "done"
    /\ UNCHANGED <<grid, meta, args, chunk_row, chunk_col, manifest, manifestFile>>
    /\ UNCHANGED hmVars

\* main, else branch: mesh.export(output_path) raises
MainSingleFails ==
    /\ mpc = "main"
    /\ ~(args.chunk_size > 0)
    /\ mpc' = "failed"
    /\ UNCHANGED <<grid, meta, args, chunk_row, chunk_col, manifest, meshFiles, manifestFile>>
    /\ UNCHANGED hmVars

MeshNext ==
    \/ MainChunked
    \/ ChunkStep
    \/ ChunkExportFails
    \/ WriteManifest
    \/ WriteManifestFails
    \/ MainSingle
    \/ MainSingleFails

----------------------------------------------------------------------------
\* build_heightmap.py: pure functions

\* Tile.bounds: (min_lon, min_lat, max_lon, max_lat)
bounds(t) ==
    LET min_lon == t.origin_lon
        max_lon == t.origin_lon + t.data.width * t.scale_lon
        max_lat == t.origin_lat
        min_lat == t.origin_lat - t.data.height * t.scale_lat
    IN  <<min_lon, min_lat, max_lon, max_lat>>

\* min(...) and max(...) of a non-empty set of numbers
SetMin(S) == CHOOSE x \in S : \A y \in S : x <= y
SetMax(S) == CHOOSE x \in S : \A y \in S : x >= y

\* compute_union_bounds
compute_union_bounds(ts) ==
    <<SetMin({bounds(ts[i])[1] : i \in 1 .. Len(ts)}),
      SetMin({bounds(ts[i])[2] : i \in 1 .. Len(ts)}),
      SetMax({bounds(ts[i])[3] : i \in 1 .. Len(ts)}),
      SetMax({bounds(ts[i])[4] : i \in 1 .. Len(ts)})>>

\* clamp_bounds; radius_miles / 69.0 degrees is radius_miles coordinate units
clamp_bounds(b, center_lat, center_lon, radius_miles) ==
    LET dlat == radius_miles
        dlon == (radius_miles * 1000) \div CosMilli(center_lat)
        min_lon == Max2(b[1], center_lon - dlon)
        max_lon == Min2(b[3], center_lon + dlon)
        min_lat == Max2(b[2], center_lat - dlat)
        max_lat == Min2(b[4], center_lat + dlat)
    IN  <<min_lon, min_lat, max_lon, max_lat>>

\* sorted(paths): insertion of one tile into a list sorted by path
RECURSIVE SortedInsert(_, _)
SortedInsert(sorted, t) ==
    IF sorted = <<>> THEN <<t>>
    ELSE IF t.path < Head(sorted).path THEN <<t>> \o sorted
    ELSE <<Head(sorted)>> \o SortedInsert(Tail(sorted), t)

\* mutant of SortByPath: the paths are used in glob order
SortByPathGlobOrder(ts) == ts

RECURSIVE SortByPath(_)
SortByPath(ts) ==
    IF ts = <<>> THEN <<>> ELSE SortedInsert(SortByPath(Tail(ts)), Head(ts))

\* main: width and height of the target grid
GridWidth(c, scale_lon) == CeilDiv(c[3] - c[1], scale_lon)
GridHeight(c, scale_lat) == CeilDiv(c[4] - c[2], scale_lat)

\* main: "Skip tiles outside clip bounds"
Skipped(t, c) ==
    LET b == bounds(t)
    IN  \/ b[3] < c[1] \/ b[1] > c[3]
        \/ b[4] < c[2] \/ b[2] > c[4]

\* main: the pixel offset of a tile in the target grid
OriginCol(t, c, scale_lon) == RoundDiv(t.origin_lon - c[1], scale_lon)
OriginRow(t, c, scale_lat) == RoundDiv(c[4] - t.origin_lat, scale_lat)

\* mutant of CopyRanges: the source start loses its minus sign
CopyRangesSignSlip(t, c, scale_lon, scale_lat, height, width) ==
    LET origin_col == OriginCol(t, c, scale_lon)
        origin_row == OriginRow(t, c, scale_lat)
        tile_height == t.data.height
        tile_width == t.data.width
        row_start == Max2(0, origin_row)
        col_start == Max2(0, origin_col)
        row_end == Min2(height, origin_row + tile_height)
        col_end == Min2(width, origin_col + tile_width)
        src_row_start == Max2(0, origin_row)
        src_col_start == Max2(0, origin_col)
    IN  [row_start |-> row_start, row_end |-> row_end,
         col_start |-> col_start, col_end |-> col_end,
         src_row_start |-> src_row_start,
         src_row_end |-> src_row_start + (row_end - row_start),
         src_col_start |-> src_col_start,
         src_col_end |-> src_col_start + (col_end - col_start)]

\* main: the destination and source ranges of a tile's copy
CopyRanges(t, c, scale_lon, scale_lat, height, width) ==
    LET origin_col == OriginCol(t, c, scale_lon)
        origin_row == OriginRow(t, c, scale_lat)
        tile_height == t.data.height
        tile_width == t.data.width
        row_start == Max2(0, origin_row)
        col_start == Max2(0, origin_col)
        row_end == Min2(height, origin_row + tile_height)
        col_end == Min2(width, origin_col + tile_width)
        src_row_start == Max2(0, -origin_row)
        src_col_start == Max2(0, -origin_col)
    IN  [row_start |-> row_start, row_end |-> row_end,
         col_start |-> col_start, col_end |-> col_end,
         src_row_start |-> src_row_start,
         src_row_end |-> src_row_start + (row_end - row_start),
         src_col_start |-> src_col_start,
         src_col_end |-> src_col_start + (col_end - col_start)]

\* numpy: the index a slice bound i denotes in an axis of length n
SliceBound(i, n) == IF i < 0 THEN Max2(0, i + n) ELSE Min2(i, n)
\* numpy: first index and length of a[start:stop] in an axis of length n
SliceLo(start, n) == SliceBound(start, n)
SliceLen(start, stop, n) == Max2(0, SliceBound(stop, n) - SliceBound(start, n))

\* numpy: a source axis of length s can be assigned to a destination axis of length d
Broadcasts(s, d) == s = d \/ s = 1

\* numpy: grid[rs:re, cs:ce] = data[srs:sre, scs:sce] does not raise
CanAssign(g, data, rg) ==
    /\ Broadcasts(SliceLen(rg.src_row_start, rg.src_row_end, data.height),
                  SliceLen(rg.row_start, rg.row_end, g.height))
    /\ Broadcasts(SliceLen(rg.src_col_start, rg.src_col_end, data.width),
                  SliceLen(rg.col_start, rg.col_end, g.width))

\* numpy: the grid after grid[rs:re, cs:ce] = data[srs:sre, scs:sce]
Assigned(g, data, rg) ==
    LET r0 == SliceLo(rg.row_start, g.height)
        rn == SliceLen(rg.row_start, rg.row_end, g.height)
        c0 == SliceLo(rg.col_start, g.width)
        cn == SliceLen(rg.col_start, rg.col_end, g.width)
        sr0 == SliceLo(rg.src_row_start, data.height)
        srn == SliceLen(rg.src_row_start, rg.src_row_end, data.height)
        sc0 == SliceLo(rg.src_col_start, data.width)
        scn == SliceLen(rg.src_col_start, rg.src_col_end, data.width)
    IN  [g EXCEPT !.at =
            [rc \in DOMAIN g.at |->
                IF /\ r0 <= rc[1] /\ rc[1] < r0 + rn
                   /\ c0 <= rc[2] /\ rc[2] < c0 + cn
                THEN data.at[<<sr0 + (IF srn = 1 THEN 0 ELSE rc[1] - r0),
                               sc0 + (IF scn = 1 THEN 0 ELSE rc[2] - c0)>>]
                ELSE g.at[rc]]]

\* mutant of FullNaN: the grid is allocated with np.zeros
FullZeros(height, width) ==
    [height |-> height, width |-> width,
     at |-> [rc \in (0 .. height - 1) \X (0 .. width - 1) |-> F(0)]]

\* np.full((height, width), np.nan)
FullNaN(height, width) ==
    [height |-> height, width |-> width,
     at |-> [rc \in (0 .. height - 1) \X (0 .. width - 1) |-> NaN]]

----------------------------------------------------------------------------
\* build_heightmap.py: inputs

\* where a tile's top-left corner may lie: longitude, and latitude above the
\* latitude of the scene
TileLons == {0, 1, 3}
TileLats == {2, 4}
\* (height, width) of a tile's sample array
TileShapes == {<<2, 2>>, <<1, 2>>}
\* the latitude of the scene (the equator, or 60 degrees north), which is
\* --center-lat; --center-lon lies among the tiles
BaseLats == {0, 60 * MilesPerDegree}
CenterLons == {3}

\* the samples of the tile at path p: every sample names its tile and its cell
TileData(p, shape) ==
    [height |-> shape[1], width |-> shape[2],
     at |-> [rc \in (0 .. shape[1] - 1) \X (0 .. shape[2] - 1) |->
                F(p * 100 + rc[1] * 10 + rc[2])]]

\* a loaded Tile: all tiles of a run have the same pixel scale
MakeTile(p, lon, lat, shape) ==
    [path |-> p, data |-> TileData(p, shape),
     origin_lon |-> lon, origin_lat |-> lat,
     scale_lon |-> PixelScale, scale_lat |-> PixelScale]

HmIdle ==
    /\ globbed = <<>>
    /\ hargs = [center_lat |-> 0, center_lon |-> 0, radius_miles |-> 0]
    /\ tiles = <<>>
    /\ clip = <<0, 0, 0, 0>>
    /\ hgrid = [height |-> 0, width |-> 0, at |-> <<>>]
    /\ tileIdx = 0
    /\ hpc = "idle"
    /\ herr = ""
    /\ binFile = <<>>
    /\ jsonFile = <<>>

\* the state of build_heightmap.main after parse_args: the directory holds n
\* tiles, which glob lists in ascending or in descending path order
HmInit ==
    \E n \in 0 .. MaxTiles, base \in BaseLats, center_lon \in CenterLons,
       radius \in 0 .. MaxRadius, descending \in BOOLEAN :
      \E lon \in [1 .. n -> TileLons], lat \in [1 .. n -> TileLats],
         shape \in [1 .. n -> TileShapes] :
        /\ globbed = [i \in 1 .. n |->
                        LET p == IF descending THEN n + 1 - i ELSE i
                        IN  MakeTile(p, lon[p], base + lat[p], shape[p])]
        /\ hargs = [center_lat |-> base, center_lon |-> center_lon,
                    radius_miles |-> radius]
        /\ tiles = <<>>
        /\ clip = <<0, 0, 0, 0>>
        /\ hgrid = [height |-> 0, width |-> 0, at |-> <<>>]
        /\ tileIdx = 0
        /\ hpc = "start"
        /\ herr = ""
        /\ binFile = <<>>
        /\ jsonFile = <<>>

----------------------------------------------------------------------------
\* build_heightmap.py: main

\* main: the pixel scale of the mosaic is the first tile's
scale_lon == tiles[1].scale_lon
scale_lat == tiles[1].scale_lat

\* "if not tiff_paths: raise SystemExit"
NoTiles ==
    /\ hpc = "start"
    /\ globbed = <<>>
    /\ hpc' = "failed"
    /\ herr' = "SystemExit"
    /\ UNCHANGED <<globbed, hargs, tiles, clip, hgrid, tileIdx, binFile, jsonFile>>
    /\ UNCHANGED meshVars

\* sorted(glob), load_tiles, compute_union_bounds, clamp_bounds
LoadTiles ==
    /\ hpc = "start"
    /\ globbed # <<>>
    /\ tiles' = SortByPath(globbed)
    /\ clip' = clamp_bounds(compute_union_bounds(tiles'), hargs.center_lat,
                            hargs.center_lon, hargs.radius_miles)
    /\ hpc' = "alloc"
    /\ UNCHANGED <<globbed, hargs, hgrid, tileIdx, herr, binFile, jsonFile>>
    /\ UNCHANGED meshVars

\* width, height and np.full, which raises ValueError on a negative dimension
AllocateGrid ==
    /\ hpc = "alloc"
    /\ LET width == GridWidth(clip, scale_lon)
           height == GridHeight(clip, scale_lat)
       IN  IF width < 0 \/ height < 0
           THEN /\ hpc' = "failed"
                /\ herr' = "ValueError: negative dimensions"
                /\ UNCHANGED <<hgrid, tileIdx>>
           ELSE /\ hgrid' = FullNaN(height, width)
                /\ tileIdx' = 1
                /\ hpc' = "composite"
                /\ herr' = herr
    /\ UNCHANGED <<globbed, hargs, tiles, clip, binFile, jsonFile>>
    /\ UNCHANGED meshVars

\* one iteration of "for tile in tiles": skip the tile or copy its samples
CompositeTile ==
    /\ hpc = "composite"
    /\ tileIdx <= Len(tiles)
    /\ LET tile == tiles[tileIdx]
           rg == CopyRanges(tile, clip, scale_lon, scale_lat, hgrid.height, hgrid.width)
       IN  IF Skipped(tile, clip)
           THEN /\ tileIdx' = tileIdx + 1
                /\ UNCHANGED <<hgrid, hpc, herr>>
           ELSE IF CanAssign(hgrid, tile.data, rg)
           THEN /\ hgrid' = Assigned(hgrid, tile.data, rg)
                /\ tileIdx' = tileIdx + 1
                /\ UNCHANGED <<hpc, herr>>
           ELSE /\ hpc' = "failed"
                /\ herr' = "ValueError: could not broadcast"
                /\ UNCHANGED <<hgrid, tileIdx>>
    /\ UNCHANGED <<globbed, hargs, tiles, clip, binFile, jsonFile>>
    /\ UNCHANGED meshVars

\* mkdir and grid.tofile(bin_path)
WriteBin ==
    /\ hpc = "composite"
    /\ tileIdx > Len(tiles)
    /\ binFile' = <<hgrid>>
    /\ hpc' = "write_json"
    /\ UNCHANGED <<globbed, hargs, tiles, clip, hgrid, tileIdx, herr, jsonFile>>
    /\ UNCHANGED meshVars

\* mkdir or grid.tofile(bin_path) raises
WriteBinFails ==
    /\ hpc = "composite"
    /\ tileIdx > Len(tiles)
    /\ hpc' = "failed"
    /\ herr' = "OSError"
    /\ UNCHANGED <<globbed, hargs, tiles, clip, hgrid, tileIdx, binFile, jsonFile>>
    /\ UNCHANGED meshVars

\* the metadata dict, open(meta_path, "w") and json.dump
WriteJson ==
    /\ hpc = "write_json"
    /\ jsonFile' = <<[originLat |-> clip[4], originLon |-> clip[1],
                      pixelSizeDeg |-> scale_lon,
                      width |-> hgrid.width, height |-> hgrid.height,
                      center |-> hargs]>>
    /\ hpc' = "done"
    /\ UNCHANGED <<globbed, hargs, tiles, clip, hgrid, tileIdx, herr, binFile>>
    /\ UNCHANGED meshVars

\* open(meta_path, "w") raises, e.g. <prefix>.json is a directory
WriteJsonFails ==
    /\ hpc = "write_json"
    /\ hpc' = "failed"
    /\ herr' = "OSError"
    /\ UNCHANGED <<globbed, hargs, tiles, clip, hgrid, tileIdx, binFile, jsonFile>>
    /\ UNCHANGED meshVars

HmNext ==
    \/ NoTiles
    \/ LoadTiles
    \/ AllocateGrid
    \/ CompositeTile
    \/ WriteBin
    \/ WriteBinFails
    \/ WriteJson
    \/ WriteJsonFails

----------------------------------------------------------------------------
\* Specifications

\* the mesh builder alone
MeshStart == HmIdle /\ MeshInit
SpecMesh == MeshStart /\ [][MeshNext]_vars

\* the heightmap builder alone
HmStart == MeshIdle /\ HmInit
SpecHm == HmStart /\ [][HmNext]_vars

\* either stage of the pipeline
Init == MeshStart \/ HmStart
Next == MeshNext \/ HmNext
Spec == Init /\ [][Next]_vars

----------------------------------------------------------------------------
\* Properties of build_terrain_mesh.py

Range(q) == {q[i] : i \in 1 .. Len(q)}

\* the sub-grid range the k-th exported file was built from
FileRange(k) ==
    IF args.chunk_size > 0
    THEN ChunkRange(ChunkedGrid, args.chunk_size, meshFiles[k].file[2], meshFiles[k].file[3])
    ELSE [row_start |-> 0, row_end |-> ChunkedGrid.height,
          col_start |-> 0, col_end |-> ChunkedGrid.width]

\* width and height of the grid the k-th exported file was built from
FileW(k) == FileRange(k).col_end - FileRange(k).col_start
FileH(k) == FileRange(k).row_end - FileRange(k).row_start

\* the heightmap sample under cell (row, col) of the k-th exported file
FileSample(k, row, col) ==
    ChunkedGrid.at[<<FileRange(k).row_start + row, FileRange(k).col_start + col>>]

\* the vertex the k-th exported file holds for its cell (row, col)
FileVertex(k, row, col) == meshFiles[k].mesh.vertices[row * FileW(k) + col + 1]

\* C5: a mesh built from a W x H grid (W, H >= 1) has W*H vertices, 2*(W-1)*(H-1)
\* triangles, every triangle with three distinct indices in 0..W*H-1, and every
\* quad (row, col) gives exactly the triangles (v00, v10, v01) and (v01, v10, v11)
C5_MeshCounts ==
    \A k \in 1 .. Len(meshFiles) :
        LET W == FileW(k)
            H == FileH(k)
            mesh == meshFiles[k].mesh
            quads == (0 .. H - 2) \X (0 .. W - 2)
            tri1(q) == <<q[1] * W + q[2], (q[1] + 1) * W + q[2], q[1] * W + q[2] + 1>>
            tri2(q) == <<q[1] * W + q[2] + 1, (q[1] + 1) * W + q[2], (q[1] + 1) * W + q[2] + 1>>
        IN  /\ W >= 1 /\ H >= 1
            /\ Len(mesh.vertices) = W * H
            /\ Len(mesh.faces) = 2 * (W - 1) * (H - 1)
            /\ \A i \in 1 .. Len(mesh.faces) :
                  LET f == mesh.faces[i]
                  IN  /\ f[1] # f[2] /\ f[1] # f[3] /\ f[2] # f[3]
                      /\ \A j \in 1 .. 3 : f[j] \in 0 .. W * H - 1
            /\ Range(mesh.faces) = {tri1(q) : q \in quads} \cup {tri2(q) : q \in quads}
            /\ \A q \in quads :
                  /\ Cardinality({i \in 1 .. Len(mesh.faces) : mesh.faces[i] = tri1(q)}) = 1
                  /\ Cardinality({i \in 1 .. Len(mesh.faces) : mesh.faces[i] = tri2(q)}) = 1
            \* the vertex at index row*W+col lies at the position of cell (row, col):
            \* equal X along a column, equal Z along a row, X growing with col, Z falling with row
            /\ \A row \in 0 .. H - 1 : \A col \in 0 .. W - 1 :
                  /\ FileVertex(k, row, col).x = FileVertex(k, 0, col).x
                  /\ FileVertex(k, row, col).z = FileVertex(k, row, 0).z
                  /\ col > 0 => FileVertex(k, row, col).x > FileVertex(k, row, col - 1).x
                  /\ row > 0 => FileVertex(k, row, col).z < FileVertex(k, row - 1, col).z

\* C5 witness: the single mesh of a 3 x 4 grid has been exported
C5_Witness ==
    /\ mpc = "done"
    /\ args.chunk_size = 0
    /\ Len(meshFiles) = 1
    /\ FileW(1) = 4 /\ FileH(1) = 3
    /\ Len(meshFiles[1].mesh.faces) = 12

\* the height create_terrain_mesh must give a sample, in 1/1000 foot
ExpectedY(sample) ==
    IF sample.nan THEN F(0)
    ELSE IF sample.v * METERS_TO_FEET < NodataFloor THEN F(0)
    ELSE F(sample.v * METERS_TO_FEET)

\* C9: no vertex has a NaN height; a NaN sample, or one below -1000 ft, gives
\* Y = 0 and every other sample gives its value in feet; the all-NaN 3 x 3 grid
\* gives 9 vertices at Y = 0 and 8 triangles
C9_NoNaNHeights ==
    /\ \A k \in 1 .. Len(meshFiles) :
          /\ \A i \in 1 .. Len(meshFiles[k].mesh.vertices) :
                ~isnan(meshFiles[k].mesh.vertices[i].y)
          /\ \A row \in 0 .. FileH(k) - 1 : \A col \in 0 .. FileW(k) - 1 :
                FileVertex(k, row, col).y = ExpectedY(FileSample(k, row, col))
    /\ ( /\ mpc = "done" /\ args.chunk_size = 0 /\ args.downsample = 1
         /\ grid.height = 3 /\ grid.width = 3
         /\ \A rc \in DOMAIN grid.at : isnan(grid.at[rc]) )
       => /\ Len(meshFiles[1].mesh.vertices) = 9
          /\ \A i \in 1 .. 9 : meshFiles[1].mesh.vertices[i].y = F(0)
          /\ Len(meshFiles[1].mesh.faces) = 8

\* C9 witness: an exported mesh covers a NaN sample, a sample below the floor
\* and a sample above it
C9_Witness ==
    \E k \in 1 .. Len(meshFiles) :
        /\ \E rc \in (0 .. FileH(k) - 1) \X (0 .. FileW(k) - 1) :
              isnan(FileSample(k, rc[1], rc[2]))
        /\ \E rc \in (0 .. FileH(k) - 1) \X (0 .. FileW(k) - 1) :
              FileSample(k, rc[1], rc[2]) = F(-305)
        /\ \E rc \in (0 .. FileH(k) - 1) \X (0 .. FileW(k) - 1) :
              FileSample(k, rc[1], rc[2]) = F(-304)

\* the chunk loop of create_chunked_terrain is over
ChunkLoopDone == args.chunk_size > 0 /\ mpc \in {"write_manifest", "done"}

\* the k-th exported chunk triangulates quad (row, col) of the full grid
ChunkHasQuad(k, row, col) ==
    LET rg == FileRange(k)
        W == FileW(k)
        lr == row - rg.row_start
        lc == col - rg.col_start
    IN  /\ 0 <= lr /\ lr < FileH(k) - 1
        /\ 0 <= lc /\ lc < W - 1
        /\ <<lr * W + lc, (lr + 1) * W + lc, lr * W + lc + 1>> \in Range(meshFiles[k].mesh.faces)
        /\ <<lr * W + lc + 1, (lr + 1) * W + lc, (lr + 1) * W + lc + 1>>
              \in Range(meshFiles[k].mesh.faces)

RECURSIVE FaceTotal(_)
FaceTotal(k) == IF k = 0 THEN 0 ELSE Len(meshFiles[k].mesh.faces) + FaceTotal(k - 1)

\* C10: ceil(W/chunk_size) * ceil(H/chunk_size) chunks are emitted, in row-major
\* order, and every quad of the grid is triangulated in exactly one chunk
C10_ChunksPartitionQuads ==
    ChunkLoopDone =>
        LET W == ChunkedGrid.width
            H == ChunkedGrid.height
            nx == (W + args.chunk_size - 1) \div args.chunk_size
            nz == (H + args.chunk_size - 1) \div args.chunk_size
        IN  /\ Len(meshFiles) = nx * nz
            /\ Len(manifest.files) = nx * nz
            /\ \A k \in 1 .. Len(meshFiles) :
                  /\ manifest.files[k].chunk_x = (k - 1) % nx
                  /\ manifest.files[k].chunk_z = (k - 1) \div nx
                  /\ meshFiles[k].file = ChunkName((k - 1) % nx, (k - 1) \div nx)
                  /\ manifest.files[k].file = meshFiles[k].file
            /\ \A row \in 0 .. H - 2 : \A col \in 0 .. W - 2 :
                  Cardinality({k \in 1 .. Len(meshFiles) : ChunkHasQuad(k, row, col)}) = 1
            /\ FaceTotal(Len(meshFiles)) = 2 * (W - 1) * (H - 1)

\* C10 witness: a 5 x 5 grid cut with chunk_size 2 into 3 x 3 chunks, the last
\* row and column of chunks holding a single row or column and no triangle
C10_Witness ==
    /\ ChunkLoopDone
    /\ ChunkedGrid.width = 5 /\ ChunkedGrid.height = 5
    /\ args.chunk_size = 2
    /\ Len(meshFiles) = 9
    /\ meshFiles[3].mesh.faces = <<>>
    /\ Len(meshFiles[1].mesh.faces) = 8

\* C1: two horizontally adjacent chunks have the same vertices (X, Y and Z)
\* along their common boundary column
C1_SharedBoundaryColumn ==
    \A k \in 1 .. Len(meshFiles) : \A n \in 1 .. Len(meshFiles) :
        ( /\ args.chunk_size > 0
          /\ meshFiles[n].file[3] = meshFiles[k].file[3]
          /\ meshFiles[n].file[2] = meshFiles[k].file[2] + 1 )
        => \A row \in 0 .. FileH(k) - 1 :
              FileVertex(k, row, FileW(k) - 1) = FileVertex(n, row, 0)

\* C1 at full resolution: the same, for runs with --downsample 1
C1_SharedBoundaryColumnFullRes == args.downsample = 1 => C1_SharedBoundaryColumn

\* C8: the bounds of every manifest entry are the minimum and maximum local X
\* and Z over the vertices of that chunk's mesh
C8_BoundsMatchMesh ==
    \A k \in 1 .. Len(meshFiles) :
        (args.chunk_size > 0 /\ k <= Len(manifest.files)) =>
            LET vs == Range(meshFiles[k].mesh.vertices)
                b == manifest.files[k].bounds
            IN  /\ b.min_x = SetMin({v.x : v \in vs})
                /\ b.max_x = SetMax({v.x : v \in vs})
                /\ b.min_z = SetMin({v.z : v \in vs})
                /\ b.max_z = SetMax({v.z : v \in vs})

\* C8 at full resolution: the same, for runs with --downsample 1
C8_BoundsMatchMeshFullRes == args.downsample = 1 => C8_BoundsMatchMesh

----------------------------------------------------------------------------
\* Properties of build_heightmap.py

\* the target grid has been allocated
Allocated == tileIdx >= 1

\* the compositing loop is over
Composited ==
    \/ hpc = "composite" /\ tileIdx > Len(tiles)
    \/ hpc \in {"write_json", "done"}
    \/ hpc = "failed" /\ herr = "OSError"

\* cell rc of the target grid lies in the footprint tile t is placed at
InFootprint(t, rc) ==
    LET r == rc[1] - RoundDiv(clip[4] - t.origin_lat, PixelScale)
        c == rc[2] - RoundDiv(t.origin_lon - clip[1], PixelScale)
    IN  /\ 0 <= r /\ r < t.data.height
        /\ 0 <= c /\ c < t.data.width

\* the sample tile t holds for cell rc of the target grid
SampleFor(t, rc) ==
    t.data.at[<<rc[1] - RoundDiv(clip[4] - t.origin_lat, PixelScale),
                rc[2] - RoundDiv(t.origin_lon - clip[1], PixelScale)>>]

\* the area of cell rc of the target grid and the bounding box of tile t overlap
GeoOverlap(t, rc) ==
    LET cell_min_lon == clip[1] + rc[2] * PixelScale
        cell_max_lon == clip[1] + (rc[2] + 1) * PixelScale
        cell_max_lat == clip[4] - rc[1] * PixelScale
        cell_min_lat == clip[4] - (rc[1] + 1) * PixelScale
    IN  /\ t.origin_lon < cell_max_lon
        /\ cell_min_lon < t.origin_lon + t.data.width * PixelScale
        /\ t.origin_lat - t.data.height * PixelScale < cell_max_lat
        /\ cell_min_lat < t.origin_lat

\* tile t meets the clip bounds (it is not skipped by the compositing loop)
MeetsClip(t) ==
    /\ t.origin_lon + t.data.width * PixelScale >= clip[1]
    /\ t.origin_lon <= clip[3]
    /\ t.origin_lat >= clip[2]
    /\ t.origin_lat - t.data.height * PixelScale <= clip[4]

\* the tiles among ts that cover cell rc of the target grid
CoveringOf(ts, rc) == {t \in ts : MeetsClip(t) /\ InFootprint(t, rc)}
Covering(rc) == CoveringOf(Range(globbed), rc)

\* C3: tiles are composited in ascending path order, and afterwards every cell
\* covered by at least one tile that was not skipped holds the sample of the
\* covering tile that is last in that order
C3_LastWriteWins ==
    /\ \A i \in 1 .. Len(tiles) : \A j \in 1 .. Len(tiles) :
          i < j => tiles[i].path < tiles[j].path
    /\ hpc \notin {"idle", "start"} /\ globbed # <<>> => Range(tiles) = Range(globbed)
    /\ Composited =>
          LET ts == Range(globbed)
          IN  \A rc \in DOMAIN hgrid.at :
                LET cov == CoveringOf(ts, rc)
                IN  cov # {} =>
                      LET last == CHOOSE t \in cov : \A u \in cov : u.path <= t.path
                      IN  hgrid.at[rc] = SampleFor(last, rc)

\* C3 witness: glob listed two tiles in descending order, both were copied
\* and some cell of the finished grid is covered by both
C3_Witness ==
    /\ hpc = "done"
    /\ Len(globbed) = 2
    /\ globbed[1].path > globbed[2].path
    /\ \E rc \in DOMAIN hgrid.at : Cardinality(Covering(rc)) = 2

\* C6: a cell of the target grid that no tile covers is NaN: a cell outside
\* every tile's bounding box is NaN, and a cell that is not NaN holds the sample
\* of a tile already copied whose footprint covers it
C6_UncoveredIsNaN ==
    Allocated =>
        /\ LET ts == Range(globbed)
           IN  \A rc \in DOMAIN hgrid.at :
                 IF isnan(hgrid.at[rc])
                 THEN TRUE
                 ELSE /\ CoveringOf(ts, rc) # {}
                      /\ \E t \in ts : GeoOverlap(t, rc)
                      /\ \E i \in 1 .. Len(tiles) :
                            /\ i < tileIdx
                            /\ MeetsClip(tiles[i])
                            /\ InFootprint(tiles[i], rc)
                            /\ hgrid.at[rc] = SampleFor(tiles[i], rc)
        /\ binFile # <<>> => binFile[1] = hgrid

\* C6 witness: the written grid holds a cell no tile covers and a cell a tile covers
C6_Witness ==
    /\ hpc = "done"
    /\ binFile # <<>>
    /\ \E rc \in DOMAIN binFile[1].at : Covering(rc) = {} /\ isnan(binFile[1].at[rc])
    /\ \E rc \in DOMAIN binFile[1].at : Covering(rc) # {} /\ ~isnan(binFile[1].at[rc])

\* the ranges of the copy of tile t
RangesOf(t) == CopyRanges(t, clip, scale_lon, scale_lat, hgrid.height, hgrid.width)

\* C7: for every tile that is not skipped, the destination and the source range
\* of the copy have the same shape, the destination range lies in the target
\* grid and the source range in the tile's array; the assignment never fails
C7_CopyRangesValid ==
    Allocated =>
        /\ herr # "ValueError: could not broadcast"
        /\ \A i \in 1 .. Len(tiles) :
              ~Skipped(tiles[i], clip) =>
                  LET rg == RangesOf(tiles[i])
                  IN  /\ 0 <= rg.row_start /\ rg.row_start <= rg.row_end
                      /\ rg.row_end <= hgrid.height
                      /\ 0 <= rg.col_start /\ rg.col_start <= rg.col_end
                      /\ rg.col_end <= hgrid.width
                      /\ 0 <= rg.src_row_start /\ rg.src_row_start <= rg.src_row_end
                      /\ rg.src_row_end <= tiles[i].data.height
                      /\ 0 <= rg.src_col_start /\ rg.src_col_start <= rg.src_col_end
                      /\ rg.src_col_end <= tiles[i].data.width
                      /\ rg.row_end - rg.row_start = rg.src_row_end - rg.src_row_start
                      /\ rg.col_end - rg.col_start = rg.src_col_end - rg.src_col_start

\* tile i was copied into a non-empty range of the target grid
CopiedSome(i) ==
    /\ i < tileIdx
    /\ ~Skipped(tiles[i], clip)
    /\ RangesOf(tiles[i]).col_end > RangesOf(tiles[i]).col_start
    /\ RangesOf(tiles[i]).row_end > RangesOf(tiles[i]).row_start

\* C7 witness: a tile was copied whose left columns fall outside the grid, and
\* a tile was copied whose right columns fall outside the grid
C7_Witness ==
    /\ Allocated
    /\ \E i \in 1 .. Len(tiles) :
          CopiedSome(i) /\ RangesOf(tiles[i]).src_col_start > 0
    /\ \E i \in 1 .. Len(tiles) :
          /\ CopiedSome(i)
          /\ RangesOf(tiles[i]).src_col_start = 0
          /\ RangesOf(tiles[i]).src_col_end < tiles[i].data.width

\* the clip bounds are empty or degenerate
DegenerateClip == clip[3] <= clip[1] \/ clip[4] <= clip[2]

\* C2: when the clip bounds are empty or degenerate the build fails and writes
\* no file; no grid of zero width or height is allocated or written
C2_DegenerateClipFails ==
    (hpc \notin {"idle", "start", "alloc"} /\ DegenerateClip) =>
        /\ hpc = "failed"
        /\ binFile = <<>>
        /\ jsonFile = <<>>

\* C4: a run that fails leaves none of its stage's output files behind
C4_AbortLeavesNoFiles ==
    /\ mpc = "failed" => meshFiles = <<>> /\ manifestFile = <<>>
    /\ hpc = "failed" => binFile = <<>> /\ jsonFile = <<>>

====
